---- MODULE Spec2Model ----
(***************************************************************************)
(* A model of theotown-unpacker.py: the byte cipher (decrypt_file), the    *)
(* archive locator (load_apk_from_xapk, get_root_dirs and the head of      *)
(* main), the asset-extraction loop of main and its script-export stage.   *)
(*                                                                         *)
(* Text (file names, file contents, JSON) is a sequence of byte values     *)
(* 0..255; the comments give the ASCII reading of every literal.           *)
(***************************************************************************)
EXTENDS Integers, Sequences, FiniteSets, TLC

VARIABLES
    \* ---- a run of main (specification Spec)
    pc,         \* where main is: "open", "manifest", "extract", "dump", "done", "failed"
    apk_path,   \* input: [suffix, zip], the path's suffix and the zip file it names
    apk,        \* the archive main reads from (a sequence of entries)
    member,     \* the container member load_apk_from_xapk returned, <<>> if none
    unwraps,    \* how many times load_apk_from_xapk was called
    files,      \* file_data["files"]: the manifest's descriptors, in order
    idx,        \* the position in files of the next descriptor of the loop
    fs,         \* the output directory: relative path -> content of the file
    dirs,       \* the directories of the output directory (<<>> is its root)
    events,     \* what main did so far: warnings, skips, writes, in order
    error,      \* the exception that ended main, "" if none
    scripts,    \* the script listing being dumped
    sidx,       \* the position in scripts of the next script
    \* ---- decrypt_file run on its own (specification SpecCipher)
    cpc,        \* "call" before the call, "ret" after a return, "raise" after an exception
    seed,       \* input: the seed byte the encrypted stream starts with
    plain,      \* input: the byte sequence the encrypted stream was built from
    enc,        \* input: the content of the archive entry decrypt_file opens
    dec_buf,    \* the bytearray decrypt_file returns
    dec_trunc   \* what the same bytes give with the accumulator kept modulo 256

main_vars == <<pc, apk_path, apk, member, unwraps, files, idx, fs, dirs, events,
               error, scripts, sidx>>

cipher_vars == <<cpc, seed, plain, enc, dec_buf, dec_trunc>>

vars == <<main_vars, cipher_vars>>

\* ------------------------------------------------------------------ bounds

\* longest byte sequence fed to the cipher on its own
MaxLen == 2

\* most descriptors in a manifest
MaxFiles == 2

\* most entries in a container given to the archive locator
MaxEntries == 3

\* longest .json payload of the payloads tried exhaustively
MaxPayload == 4

\* ------------------------------------------------------- program constants

MulA == 16741       \* 0x4165
MulB == 163         \* 0xA3, also the per-byte increment
MulC == 149         \* 0x95
AddC == 101         \* 0x65
ByteMask == 255     \* 0xff
SignMax == 127      \* 0x7f
SignBit == 128      \* 0x80

Byte == 0..255

\* ------------------------------------------------------------ bit operations

\* Python's a ^ b on non-negative integers of any width
RECURSIVE Xor(_, _)
Xor(a, b) ==
    IF a = 0 THEN b
    ELSE IF b = 0 THEN a
    ELSE (((a % 2) + (b % 2)) % 2) + 2 * Xor(a \div 2, b \div 2)

\* Python's a & b on non-negative integers of any width
RECURSIVE BitAnd(_, _)
BitAnd(a, b) ==
    IF a = 0 \/ b = 0 THEN 0
    ELSE ((a % 2) * (b % 2)) + 2 * BitAnd(a \div 2, b \div 2)

\* ------------------------------------------------------------------ cipher

\* lines 82-84, mutated: the additive constant 0x65 is left out
InitialKeyNoAdd(lby_b1) == ((lby_b1 * MulA) * MulB) + (lby_b1 * MulC)

\* lines 82-84: the keystream accumulator derived from the first byte
InitialKey(lby_b1) == ((lby_b1 * MulA) * MulB) + (lby_b1 * MulC) + AddC

\* lines 87-90, mutated: the value is kept as a full byte (no high-bit fold)
DecodeByteNoFold(byte, len_mod) == BitAnd(Xor(byte, len_mod), ByteMask)

\* lines 87-90, mutated: the accumulator is applied without the & 0xff
DecodeByteNoMask(byte, len_mod) ==
    LET val == Xor(byte, len_mod)
    IN  IF val > SignMax THEN val - SignBit ELSE val

\* lines 87-90: one byte of the loop body
DecodeByte(byte, len_mod) ==
    LET val == BitAnd(Xor(byte, len_mod), ByteMask)
    IN  IF val > SignMax THEN val - SignBit ELSE val

\* lines 86-94: the loop over the bytes after the first; len_mod += 0xA3 has
\* run i - 1 times when the i-th of them is decoded
DecryptLoop(rest, len_mod) ==
    [i \in 1..Len(rest) |-> DecodeByte(rest[i], len_mod + (i - 1) * MulB)]

\* lines 80-96 on the bytes of the opened entry (non-empty)
DecryptBytes(data) == DecryptLoop(Tail(data), InitialKey(Head(data)))

\* line 80: read(1)[0] raises IndexError on an empty entry
DecryptRaises(data) == data = <<>>

\* The same loop with the accumulator reduced modulo 256 at the start and
\* after every increment (the decryptor the spec warns against writing).
RECURSIVE DecryptLoopTrunc(_, _)
DecryptLoopTrunc(rest, k) ==
    IF rest = <<>> THEN <<>>
    ELSE <<DecodeByte(Head(rest), k)>>
         \o DecryptLoopTrunc(Tail(rest), (k + MulB) % 256)

DecryptBytesTrunc(data) ==
    DecryptLoopTrunc(Tail(data), InitialKey(Head(data)) % 256)

\* The forward transform of the round-trip property: b0, then s[i] XOR the
\* low byte of k_i, k_0 = b0*0x4165*0xA3 + b0*0x95 + 0x65, k_(i+1) = k_i + 0xA3.
EncryptKey(b0) == b0 * 16741 * 163 + b0 * 149 + 101

EncryptLoop(s, k) == [i \in 1..Len(s) |-> Xor(s[i], (k + (i - 1) * 163) % 256)]

Encrypt(b0, s) == <<b0>> \o EncryptLoop(s, EncryptKey(b0))

\* ------------------------------------------------------------- UTF-8 text

\* bytes.decode("utf-8") succeeds (lines 120, 161): b is well-formed UTF-8
\* from position i on.  A run of ASCII bytes is passed over in one step.
RECURSIVE Utf8From(_, _)
Utf8From(b, i) ==
    LET n == Len(b)
        high == {j \in i..n : b[j] >= 128}
        h == CHOOSE j \in high : \A k \in high : j <= k
        Cont(j) == j <= n /\ b[j] \in 128..191
    IN  IF high = {} THEN TRUE
        ELSE IF b[h] \in 194..223 THEN Cont(h + 1) /\ Utf8From(b, h + 2)
        ELSE IF b[h] \in 224..239
             THEN /\ Cont(h + 1) /\ Cont(h + 2)
                  /\ (b[h] = 224 => b[h + 1] >= 160)
                  /\ (b[h] = 237 => b[h + 1] <= 159)
                  /\ Utf8From(b, h + 3)
        ELSE IF b[h] \in 240..244
             THEN /\ Cont(h + 1) /\ Cont(h + 2) /\ Cont(h + 3)
                  /\ (b[h] = 240 => b[h + 1] >= 144)
                  /\ (b[h] = 244 => b[h + 1] <= 143)
                  /\ Utf8From(b, h + 4)
        ELSE FALSE

Utf8Decodable(b) == Utf8From(b, 1)

\* str.endswith (lines 135, 159)
EndsWith(s, suffix) ==
    /\ Len(s) >= Len(suffix)
    /\ SubSeq(s, Len(s) - Len(suffix) + 1, Len(s)) = suffix

\* line 161: re.search(r"\/\/.*|\/\*", text) finds "//" or "/*" somewhere
HasCommentToken(text) ==
    \E i \in 1..(Len(text) - 1) : text[i] = 47 /\ text[i + 1] \in {47, 42}

\* ------------------------------------------------------------------- JSON
\* json.loads and json.dumps(indent = 2) on the part of JSON the inputs of
\* this model are written in: arrays, objects, strings without escapes and
\* unsigned integers, with JSON's whitespace.  A value is <<"num", n>>,
\* <<"str", bytes>>, <<"arr", values>> or <<"obj", <<key, value>> pairs>>
\* (keys unique, in insertion order, as in a Python dict).

JsonWs == {32, 9, 10, 13}       \* " \t\n\r"
Digits == 48..57

NoParse == [ok |-> FALSE, pos |-> 0, val |-> <<"null">>]
Parsed(p, v) == [ok |-> TRUE, pos |-> p, val |-> v]

RECURSIVE SkipWs(_, _)
SkipWs(t, i) == IF i <= Len(t) /\ t[i] \in JsonWs THEN SkipWs(t, i + 1) ELSE i

CharAt(t, i) == IF i >= 1 /\ i <= Len(t) THEN t[i] ELSE -1

RECURSIVE ScanDigits(_, _, _)
ScanDigits(t, i, acc) ==
    IF CharAt(t, i) \in Digits
    THEN ScanDigits(t, i + 1, acc * 10 + (t[i] - 48))
    ELSE Parsed(i, <<"num", acc>>)

\* NUMBER_RE: 0, or a non-zero digit followed by digits
ParseNumber(t, i) ==
    IF t[i] = 48 THEN Parsed(i + 1, <<"num", 0>>) ELSE ScanDigits(t, i, 0)

\* the index of the closing quote, or 0: a control character, a backslash
\* or the end of the text comes first
RECURSIVE StringEnd(_, _)
StringEnd(t, i) ==
    IF i > Len(t) \/ t[i] < 32 \/ t[i] = 92 THEN 0
    ELSE IF t[i] = 34 THEN i
    ELSE StringEnd(t, i + 1)

\* t[i] is the opening quote
ParseString(t, i) ==
    LET e == StringEnd(t, i + 1)
    IN  IF e = 0 THEN NoParse ELSE Parsed(e + 1, <<"str", SubSeq(t, i + 1, e - 1)>>)

\* dict semantics: a repeated key keeps its place and takes the new value
RECURSIVE PutMember(_, _, _)
PutMember(pairs, k, v) ==
    IF pairs = <<>> THEN << <<k, v>> >>
    ELSE IF Head(pairs)[1] = k THEN << <<k, v>> >> \o Tail(pairs)
    ELSE <<Head(pairs)>> \o PutMember(Tail(pairs), k, v)

RECURSIVE ParseValue(_, _), ParseItems(_, _, _), ParseMembers(_, _, _)

\* scanner.py_make_scanner._scan_once
ParseValue(t, i) ==
    LET c == CharAt(t, i)
    IN  IF c = 34 THEN ParseString(t, i)
        ELSE IF c = 91
             THEN LET j == SkipWs(t, i + 1)
                  IN  IF CharAt(t, j) = 93 THEN Parsed(j + 1, <<"arr", <<>>>>)
                      ELSE ParseItems(t, j, <<>>)
        ELSE IF c = 123
             THEN LET j == SkipWs(t, i + 1)
                  IN  IF CharAt(t, j) = 125 THEN Parsed(j + 1, <<"obj", <<>>>>)
                      ELSE IF CharAt(t, j) = 34 THEN ParseMembers(t, j, <<>>)
                      ELSE NoParse
        ELSE IF c \in Digits THEN ParseNumber(t, i)
        ELSE NoParse

\* decoder.JSONArray, after the first element's position is known
ParseItems(t, i, acc) ==
    LET r == ParseValue(t, i)
        j == SkipWs(t, r.pos)
    IN  IF ~r.ok THEN NoParse
        ELSE IF CharAt(t, j) = 93 THEN Parsed(j + 1, <<"arr", Append(acc, r.val)>>)
        ELSE IF CharAt(t, j) = 44
             THEN ParseItems(t, SkipWs(t, j + 1), Append(acc, r.val))
        ELSE NoParse

\* decoder.JSONObject, t[i] the opening quote of a key
ParseMembers(t, i, acc) ==
    LET k == ParseString(t, i)
        c == SkipWs(t, k.pos)
        v == ParseValue(t, SkipWs(t, c + 1))
        j == SkipWs(t, v.pos)
        n == SkipWs(t, j + 1)
    IN  IF ~k.ok \/ CharAt(t, c) # 58 THEN NoParse
        ELSE IF ~v.ok THEN NoParse
        ELSE IF CharAt(t, j) = 125
             THEN Parsed(j + 1, <<"obj", PutMember(acc, k.val[2], v.val)>>)
        ELSE IF CharAt(t, j) = 44 /\ CharAt(t, n) = 34
             THEN ParseMembers(t, n, PutMember(acc, k.val[2], v.val))
        ELSE NoParse

\* json.loads: leading whitespace, one value, trailing whitespace, the end
JsonLoads(t) ==
    LET r == ParseValue(t, SkipWs(t, 1))
    IN  IF r.ok /\ SkipWs(t, r.pos) = Len(t) + 1 THEN r ELSE NoParse

JsonValid(t) == JsonLoads(t).ok
JsonValue(t) == JsonLoads(t).val

RECURSIVE DecimalDigits(_)
DecimalDigits(n) ==
    IF n < 10 THEN <<48 + n>> ELSE Append(DecimalDigits(n \div 10), 48 + (n % 10))

RECURSIVE Spaces(_)
Spaces(n) == IF n = 0 THEN <<>> ELSE <<32>> \o Spaces(n - 1)

\* "\n" and the indentation of nesting level lvl, two spaces a level
NewLine(lvl) == <<10>> \o Spaces(2 * lvl)

Quoted(s) == <<34>> \o s \o <<34>>

RECURSIVE JsonDumps(_, _), DumpItems(_, _), DumpMembers(_, _)

\* json.dumps(value, indent = 2) of a value at nesting level lvl
JsonDumps(v, lvl) ==
    IF v[1] = "num" THEN DecimalDigits(v[2])
    ELSE IF v[1] = "str" THEN Quoted(v[2])
    ELSE IF v[1] = "arr"
         THEN IF v[2] = <<>> THEN <<91, 93>>
              ELSE <<91>> \o NewLine(lvl + 1) \o DumpItems(v[2], lvl + 1)
                   \o NewLine(lvl) \o <<93>>
    ELSE IF v[2] = <<>> THEN <<123, 125>>
    ELSE <<123>> \o NewLine(lvl + 1) \o DumpMembers(v[2], lvl + 1)
         \o NewLine(lvl) \o <<125>>

DumpItems(items, lvl) ==
    JsonDumps(Head(items), lvl)
    \o (IF Len(items) = 1 THEN <<>>
        ELSE <<44>> \o NewLine(lvl) \o DumpItems(Tail(items), lvl))

DumpMembers(pairs, lvl) ==
    Quoted(Head(pairs)[1]) \o <<58, 32>> \o JsonDumps(Head(pairs)[2], lvl)
    \o (IF Len(pairs) = 1 THEN <<>>
        ELSE <<44>> \o NewLine(lvl) \o DumpMembers(Tail(pairs), lvl))

\* dict lookup: the value under key k, or <<"missing">> (a KeyError)
RECURSIVE Member(_, _)
Member(pairs, k) ==
    IF pairs = <<>> THEN <<"missing">>
    ELSE IF Head(pairs)[1] = k THEN Head(pairs)[2]
    ELSE Member(Tail(pairs), k)

\* ------------------------------------------------------------- file names

AssetsPrefix == <<97, 115, 115, 101, 116, 115, 47>>                    \* "assets/"
AssetsDir == <<97, 115, 115, 101, 116, 115>>                           \* "assets"
FilesLby == <<102, 105, 108, 101, 115, 46, 108, 98, 121>>              \* "files.lby"
PngSuffix == <<46, 112, 110, 103>>                                     \* ".png"
JsonSuffix == <<46, 106, 115, 111, 110>>                               \* ".json"
ScriptingJson ==                                                       \* "scripting.json"
    <<115, 99, 114, 105, 112, 116, 105, 110, 103, 46, 106, 115, 111, 110>>
LuaSrc == <<108, 117, 97, 95, 115, 114, 99>>                           \* "lua_src"
BaseApk == <<98, 97, 115, 101, 46, 97, 112, 107>>                      \* "base.apk"
ManifestJson ==                                                        \* "manifest.json"
    <<109, 97, 110, 105, 102, 101, 115, 116, 46, 106, 115, 111, 110>>
BaseId == <<98, 97, 115, 101>>                                         \* "base"
KeyPath == <<112, 97, 116, 104>>                                       \* "path"
KeyName == <<110, 97, 109, 101>>                                       \* "name"
KeyCode == <<99, 111, 100, 101>>                                       \* "code"

\* line 102: the suffixes of a multi-split container
XapkSuffixes == {".xapks", ".xapk", ".apks"}

\* os.path.dirname: what precedes the last "/", nothing if there is none
RECURSIVE DirName(_)
DirName(path) ==
    IF path = <<>> THEN <<>>
    ELSE IF path[Len(path)] = 47 THEN SubSeq(path, 1, Len(path) - 1)
    ELSE DirName(SubSeq(path, 1, Len(path) - 1))

\* pathlib's parts[0]: what precedes the first "/"
RECURSIVE FirstPart(_)
FirstPart(path) ==
    IF path = <<>> \/ Head(path) = 47 THEN <<>>
    ELSE <<Head(path)>> \o FirstPart(Tail(path))

\* os.path.join(a, b) of two relative paths of the output directory
JoinPath(a, b) == IF a = <<>> THEN b ELSE a \o <<47>> \o b

\* a directory and the directories above it (what os.makedirs leaves behind)
RECURSIVE Ancestors(_)
Ancestors(dir) == IF dir = <<>> THEN {<<>>} ELSE {dir} \cup Ancestors(DirName(dir))

\* --------------------------------------------------------------- archives
\* A zip file is the sequence of its entries, in the order of namelist().
\* An entry has a name and a content, the content being of one kind:
\*   "data"    bytes                                   (field data)
\*   "zip"     the bytes of a zip file                 (field entries)
\*   "splits"  a JSON text with a split_apks list      (field splits)
\*   "lby"     an encrypted manifest with every key main reads (field files)

DataEntry(n, d) ==
    [name |-> n, kind |-> "data", data |-> d, entries |-> <<>>, splits |-> <<>>, files |-> <<>>]
ZipEntry(n, z) ==
    [name |-> n, kind |-> "zip", data |-> <<>>, entries |-> z, splits |-> <<>>, files |-> <<>>]
SplitsEntry(n, s) ==
    [name |-> n, kind |-> "splits", data |-> <<>>, entries |-> <<>>, splits |-> s, files |-> <<>>]
LbyEntry(n, f) ==
    [name |-> n, kind |-> "lby", data |-> <<>>, entries |-> <<>>, splits |-> <<>>, files |-> f]

ZipNames(zip) == {zip[i].name : i \in 1..Len(zip)}

\* ZipFile.getinfo / read / open raise KeyError for a name not in the archive
ZipHas(zip, n) == n \in ZipNames(zip)

ZipEntryOf(zip, n) == zip[CHOOSE i \in 1..Len(zip) : zip[i].name = n]

\* get_root_dirs, lines 55-73: the first segment of every entry's directory,
\* entries at the root of the archive giving none
GetRootDirs(zip) ==
    LET dir_names == {DirName(n) : n \in ZipNames(zip)}
    IN  {FirstPart(d) : d \in {x \in dir_names : x # <<>>}}

Loaded(e) == [err |-> "", apk |-> e.entries, member |-> e.name]
NotLoaded(why) == [err |-> why, apk |-> <<>>, member |-> <<>>]

\* lines 37-39 and 48-50: zipfile.ZipFile(io.BytesIO(xapk.read(...)))
OpenNested(e) == IF e.kind = "zip" THEN Loaded(e) ELSE NotLoaded("BadZipFile")

\* lines 44-46: the first split_apks item whose id is "base", 0 if none
BaseSplit(splits) ==
    LET with_base == {i \in 1..Len(splits) : splits[i].id = BaseId}
    IN  IF with_base = {} THEN 0
        ELSE CHOOSE i \in with_base : \A j \in with_base : i <= j

\* load_apk_from_xapk, lines 35-52: the loop over namelist() from member i on
RECURSIVE LoadFromMember(_, _)
LoadFromMember(xapk, i) ==
    IF i > Len(xapk) THEN NotLoaded("NoBaseApk")
    ELSE IF xapk[i].name = BaseApk THEN OpenNested(xapk[i])
    ELSE IF xapk[i].name = ManifestJson
         THEN IF xapk[i].kind # "splits" THEN NotLoaded("JSONDecodeError")
              ELSE LET b == BaseSplit(xapk[i].splits)
                   IN  IF b = 0 THEN LoadFromMember(xapk, i + 1)
                       ELSE IF ~ZipHas(xapk, xapk[i].splits[b].file)
                            THEN NotLoaded("KeyError")
                       ELSE OpenNested(ZipEntryOf(xapk, xapk[i].splits[b].file))
    ELSE LoadFromMember(xapk, i + 1)

\* load_apk_from_xapk, lines 32-52
load_apk_from_xapk(xapk) == LoadFromMember(xapk, 1)

\* main, lines 100-117: which archive main reads from, or how it fails;
\* unwraps counts the calls of load_apk_from_xapk
LocateArchive(path) ==
    LET direct == [err |-> "", apk |-> path.zip, member |-> <<>>, unwraps |-> 0]
        r == load_apk_from_xapk(path.zip)
        unwrapped == [err |-> r.err, apk |-> r.apk, member |-> r.member, unwraps |-> 1]
    IN  IF path.suffix \in XapkSuffixes THEN unwrapped
        ELSE IF AssetsDir \in GetRootDirs(path.zip) THEN direct
        ELSE IF r.err # "" THEN unwrapped
        ELSE IF AssetsDir \notin GetRootDirs(r.apk)
             THEN [unwrapped EXCEPT !.err = "InvalidApk"]
        ELSE unwrapped

\* --------------------------------------------------------------- digests

\* hashlib.md5(...).hexdigest(), lines 145 and 153, as a checksum of the
\* bytes and their positions: equal contents give equal digests, different
\* ones may collide.  Weighted(data, lo, hi) sums positions lo..hi.
RECURSIVE Weighted(_, _, _)
Weighted(data, lo, hi) ==
    IF lo > hi THEN 0
    ELSE IF lo = hi THEN lo * (data[lo] + 1)
    ELSE LET mid == (lo + hi) \div 2
         IN  Weighted(data, lo, mid) + Weighted(data, mid + 1, hi)

Md5(data) == (Len(data) + Weighted(data, 1, Len(data))) % 65521

\* ------------------------------------------------------------------- main

Event(e, i, path, what) == [ev |-> e, i |-> i, path |-> path, what |-> what]

Failed(why) == pc' = "failed" /\ error' = why

\* main, lines 100-117: the archive is located
OpenArchive ==
    /\ pc = "open"
    /\ LET r == LocateArchive(apk_path)
       IN  /\ unwraps' = r.unwraps
           /\ member' = r.member
           /\ apk' = r.apk
           /\ IF r.err # "" THEN Failed(r.err)
              ELSE pc' = "manifest" /\ UNCHANGED error
    /\ UNCHANGED <<apk_path, files, idx, fs, dirs, events, scripts, sidx>>
    /\ UNCHANGED cipher_vars

\* lines 120-127 on a files.lby entry that is plain bytes: the exception
\* raised (the entry does not hold a manifest with the keys main reads)
ManifestError(data) ==
    IF DecryptRaises(data) THEN "IndexError"
    ELSE LET text == DecryptBytes(data)
         IN  IF ~Utf8Decodable(text) THEN "UnicodeDecodeError"
             ELSE IF ~JsonValid(text) THEN "JSONDecodeError"
             ELSE IF JsonValue(text)[1] # "obj" THEN "TypeError"
             ELSE "KeyError"

\* main, lines 119-129: files.lby is decrypted and parsed
DecodeManifest ==
    /\ pc = "manifest"
    /\ LET lby_path == AssetsPrefix \o FilesLby
           e == ZipEntryOf(apk, lby_path)
       IN  IF ~ZipHas(apk, lby_path) THEN Failed("KeyError") /\ UNCHANGED <<files, idx>>
           ELSE IF e.kind # "lby"
                THEN Failed(ManifestError(e.data)) /\ UNCHANGED <<files, idx>>
           ELSE /\ files' = e.files
                /\ idx' = 1
                /\ pc' = "extract"
                /\ UNCHANGED error
    /\ UNCHANGED <<apk_path, apk, member, unwraps, fs, dirs, events, scripts, sidx>>
    /\ UNCHANGED cipher_vars

\* lines 132-136, mutated: the .png rule is dropped
IsSkippedNoPng(file) == ~file.lby

\* lines 132-136: the descriptors the loop passes over
IsSkipped(file) == ~file.lby \/ EndsWith(file.original_name, PngSuffix)

\* lines 142-146: the warnings about the raw entry
RawWarnings(file, i, raw) ==
    (IF Len(raw) # file.size THEN <<Event("warn", i, file.name, "size")>> ELSE <<>>)
    \o (IF Md5(raw) # file.hash THEN <<Event("warn", i, file.name, "hash")>> ELSE <<>>)

\* lines 150-154: the warnings about the decrypted payload
DecryptedWarnings(file, i, decrypted_file) ==
    (IF Len(decrypted_file) # file.original_size
     THEN <<Event("warn", i, file.name, "original size")>> ELSE <<>>)
    \o (IF Md5(decrypted_file) # file.original_hash
        THEN <<Event("warn", i, file.name, "original hash")>> ELSE <<>>)

\* lines 159-171, mutated: every .json payload is re-serialised
OutputOfAlwaysReformat(original_name, decrypted_file) ==
    IF ~EndsWith(original_name, JsonSuffix)
    THEN [err |-> "", data |-> decrypted_file]
    ELSE IF ~Utf8Decodable(decrypted_file) THEN [err |-> "UnicodeDecodeError", data |-> <<>>]
    ELSE IF ~JsonValid(decrypted_file) THEN [err |-> "JSONDecodeError", data |-> <<>>]
    ELSE [err |-> "", data |-> JsonDumps(JsonValue(decrypted_file), 0)]

\* lines 159-171: the bytes written to the opened output file, or the
\* exception raised before anything is written
OutputOf(original_name, decrypted_file) ==
    IF ~EndsWith(original_name, JsonSuffix)
    THEN [err |-> "", data |-> decrypted_file]
    ELSE IF ~Utf8Decodable(decrypted_file) THEN [err |-> "UnicodeDecodeError", data |-> <<>>]
    ELSE IF HasCommentToken(decrypted_file) THEN [err |-> "", data |-> decrypted_file]
    ELSE IF ~JsonValid(decrypted_file) THEN [err |-> "JSONDecodeError", data |-> <<>>]
    ELSE [err |-> "", data |-> JsonDumps(JsonValue(decrypted_file), 0)]

\* fs with the file at path created or replaced
WriteFile(files_now, path, data) ==
    [q \in (DOMAIN files_now) \cup {path} |-> IF q = path THEN data ELSE files_now[q]]

\* line 131, mutated: the loop stops one descriptor early
LoopDoneEarly(i, list) == i >= Len(list)

\* line 131: the for loop has no descriptor left
LoopDone(i, list) == i > Len(list)

\* main, lines 131-171: one pass of the loop over file_data["files"]
ExtractFile ==
    /\ pc = "extract"
    /\ ~LoopDone(idx, files)
    /\ LET file == files[idx]
           apk_filename == AssetsPrefix \o file.name
           raw == ZipEntryOf(apk, apk_filename).data
           decrypted_file == DecryptBytes(raw)
           warned == events \o RawWarnings(file, idx, raw)
           checked == warned \o DecryptedWarnings(file, idx, decrypted_file)
           out == OutputOf(file.original_name, decrypted_file)
       IN  IF IsSkipped(file)
           THEN /\ idx' = idx + 1
                /\ events' = Append(events, Event("skip", idx, file.original_name, ""))
                /\ UNCHANGED <<pc, error, fs>>
           ELSE IF ~ZipHas(apk, apk_filename)                       \* line 139
           THEN Failed("KeyError") /\ UNCHANGED <<idx, events, fs>>
           ELSE IF DecryptRaises(raw)                               \* line 148
           THEN Failed("IndexError") /\ events' = warned /\ UNCHANGED <<idx, fs>>
           ELSE IF DirName(file.original_name) \notin dirs          \* line 156
           THEN Failed("FileNotFoundError") /\ events' = checked /\ UNCHANGED <<idx, fs>>
           ELSE IF out.err # ""                                     \* lines 161, 168
           THEN /\ Failed(out.err)
                /\ events' = checked
                /\ fs' = WriteFile(fs, file.original_name, <<>>)
                /\ UNCHANGED idx
           ELSE /\ fs' = WriteFile(fs, file.original_name, out.data)
                /\ events' = Append(checked, Event("asset", idx, file.original_name, ""))
                /\ idx' = idx + 1
                /\ UNCHANGED <<pc, error>>
    /\ UNCHANGED <<apk_path, apk, member, unwraps, files, dirs, scripts, sidx>>
    /\ UNCHANGED cipher_vars

\* line 181: what "for script in json.loads(...)" iterates over; a number is
\* not iterable, an object gives its keys, a string its characters
ScriptItems(v) ==
    IF v[1] = "arr" THEN v[2]
    ELSE IF v[1] = "obj" THEN [i \in 1..Len(v[2]) |-> <<"str", v[2][i][1]>>]
    ELSE [i \in 1..Len(v[2]) |-> <<"str", <<v[2][i]>> >>]

\* main, lines 173-181: the loop is over; scripting.json is opened, lua_src
\* made and the listing parsed
OpenScripts ==
    /\ pc = "extract"
    /\ LoopDone(idx, files)
    /\ IF ScriptingJson \notin DOMAIN fs                            \* line 176
       THEN Failed("FileNotFoundError") /\ UNCHANGED <<dirs, events, scripts, sidx>>
       ELSE /\ dirs' = dirs \cup {LuaSrc}                           \* line 179
            /\ events' = Append(events, Event("open scripts", 0, ScriptingJson, ""))
            /\ IF ~JsonValid(fs[ScriptingJson])                     \* line 181
               THEN Failed("JSONDecodeError") /\ UNCHANGED <<scripts, sidx>>
               ELSE IF JsonValue(fs[ScriptingJson])[1] = "num"
               THEN Failed("TypeError") /\ UNCHANGED <<scripts, sidx>>
               ELSE /\ scripts' = ScriptItems(JsonValue(fs[ScriptingJson]))
                    /\ sidx' = 1
                    /\ pc' = "dump"
                    /\ UNCHANGED error
    /\ UNCHANGED <<apk_path, apk, member, unwraps, files, idx, fs>>
    /\ UNCHANGED cipher_vars

\* main, lines 181-188: one script of the listing is written under lua_src
DumpScript ==
    /\ pc = "dump"
    /\ sidx <= Len(scripts)
    /\ LET script == scripts[sidx]
           p == Member(script[2], KeyPath)
           path == JoinPath(LuaSrc, p[2])
           code == Member(script[2], KeyCode)
       IN  IF script[1] # "obj"                                     \* line 182
           THEN Failed("TypeError") /\ UNCHANGED <<dirs, fs, events, sidx>>
           ELSE IF p[1] = "missing"
           THEN Failed("KeyError") /\ UNCHANGED <<dirs, fs, events, sidx>>
           ELSE IF p[1] # "str"
           THEN Failed("TypeError") /\ UNCHANGED <<dirs, fs, events, sidx>>
           ELSE /\ dirs' = dirs \cup Ancestors(DirName(path))       \* line 184
                /\ IF Member(script[2], KeyName)[1] = "missing"     \* line 185
                   THEN Failed("KeyError") /\ UNCHANGED <<fs, events, sidx>>
                   ELSE IF code[1] # "str"                          \* line 188
                   THEN /\ Failed(IF code[1] = "missing" THEN "KeyError" ELSE "TypeError")
                        /\ fs' = WriteFile(fs, path, <<>>)
                        /\ UNCHANGED <<events, sidx>>
                   ELSE /\ fs' = WriteFile(fs, path, code[2])
                        /\ events' = Append(events, Event("script", sidx, path, ""))
                        /\ sidx' = sidx + 1
                        /\ UNCHANGED <<pc, error>>
    /\ UNCHANGED <<apk_path, apk, member, unwraps, files, idx, scripts>>
    /\ UNCHANGED cipher_vars

\* main, line 181: the listing is exhausted and main returns
Finish ==
    /\ pc = "dump"
    /\ sidx > Len(scripts)
    /\ pc' = "done"
    /\ UNCHANGED <<apk_path, apk, member, unwraps, files, idx, fs, dirs, events,
                   error, scripts, sidx>>
    /\ UNCHANGED cipher_vars

\* ----------------------------------------------------- SpecCipher: inputs

\* byte values on both sides of bit 7, with pairs that differ only in bit 7
SampleBytes == {0, 66, 127, 128, 194}

RECURSIVE SeqsUpTo(_, _)
SeqsUpTo(S, n) ==
    IF n = 0 THEN {<<>>}
    ELSE LET shorter == SeqsUpTo(S, n - 1)
         IN  shorter \cup {Append(s, x) : s \in {t \in shorter : Len(t) = n - 1}, x \in S}

\* main is not running
MainIdle ==
    /\ pc = "off" /\ apk_path = [suffix |-> "", zip |-> <<>>] /\ apk = <<>>
    /\ member = <<>> /\ unwraps = 0 /\ files = <<>> /\ idx = 0
    /\ fs = <<>> /\ dirs = {} /\ events = <<>> /\ error = ""
    /\ scripts = <<>> /\ sidx = 0

CipherInit ==
    /\ MainIdle
    /\ cpc = "call"
    /\ seed \in Byte
    /\ plain \in SeqsUpTo(SampleBytes, MaxLen)
    /\ \/ enc = Encrypt(seed, plain)
       \/ enc = <<>> /\ seed = 0 /\ plain = <<>>
    /\ dec_buf = <<>>
    /\ dec_trunc = <<>>

\* decrypt_file, lines 76-96, called on an entry whose content is enc
DecryptFileCall ==
    /\ cpc = "call"
    /\ IF DecryptRaises(enc)
       THEN /\ cpc' = "raise"
            /\ UNCHANGED <<dec_buf, dec_trunc>>
       ELSE /\ cpc' = "ret"
            /\ dec_buf' = DecryptBytes(enc)
            /\ dec_trunc' = DecryptBytesTrunc(enc)
    /\ UNCHANGED <<seed, plain, enc>>
    /\ UNCHANGED main_vars

CipherNext == DecryptFileCall

SpecCipher == CipherInit /\ [][CipherNext]_vars

\* ------------------------------------------------- claims about the cipher

\* a byte with bit 7 flipped
FlipBit7(c) == IF c >= 128 THEN c - 128 ELSE c + 128

\* C1, as stated: decrypt_file applied to encrypt(b0, s) returns exactly s,
\* for every seed byte b0 and every byte sequence s of length >= 1.
C1_RoundTripExact ==
    (cpc = "ret" /\ Len(plain) >= 1) => dec_buf = plain

\* C1, amended: decrypt_file applied to encrypt(b0, s) returns s with bit 7
\* of every byte cleared, which is exactly s when every byte of s is in
\* 0..0x7F.
C1_RoundTripLowSevenBits ==
    (cpc = "ret" /\ Len(plain) >= 1) =>
        /\ Len(dec_buf) = Len(plain)
        /\ \A i \in 1..Len(plain) : dec_buf[i] = plain[i] % 128
        /\ ((\A i \in 1..Len(plain) : plain[i] <= 127) => dec_buf = plain)

C1_Witness ==
    /\ cpc = "ret" /\ seed = 200 /\ Len(plain) = 2
    /\ plain[1] >= 128 /\ plain[2] \in 1..127
    /\ dec_buf # plain

\* C9: the output of decrypt_file, whose accumulator is never reduced, is
\* the output of the decryptor that keeps the accumulator modulo 256 from
\* the start and after every increment; seed 0x00 gives the initial
\* accumulator 0x65.
C9_LowByteOfAccumulator ==
    /\ cpc = "ret" => dec_buf = dec_trunc
    /\ seed = 0 => InitialKey(seed) = 101

C9_Witness ==
    /\ cpc = "ret" /\ Len(enc) = 3 /\ seed = 255
    /\ InitialKey(seed) + 163 > 255
    /\ dec_buf = dec_trunc

\* C10: for a non-empty encrypted input decrypt_file returns, with one byte
\* less than the input, every byte in 0..0x7F and the whole decodable as
\* UTF-8; flipping bit 7 of any encrypted byte after the seed changes nothing.
\* An empty input is the only one decrypt_file raises on.
C10_OutputIsSevenBit ==
    /\ cpc = "raise" => enc = <<>>
    /\ cpc = "ret" =>
        /\ enc # <<>>
        /\ Len(dec_buf) = Len(enc) - 1
        /\ \A i \in 1..Len(dec_buf) : dec_buf[i] \in 0..127
        /\ Utf8Decodable(dec_buf)
        /\ \A i \in 2..Len(enc) :
              DecryptBytes([enc EXCEPT ![i] = FlipBit7(enc[i])]) = dec_buf

C10_Witness ==
    /\ cpc = "ret" /\ Len(enc) = 3
    /\ \E i \in 1..Len(plain) : plain[i] >= 128 /\ dec_buf[i] = plain[i] - 128

\* ------------------------------------------------------------ Spec: inputs

NameOk == <<111, 107>>              \* "ok": a JSON text that is not in dumps' layout
NameCm == <<99, 109>>               \* "cm": a text with a comment
NameBad == <<98, 97, 100>>          \* "bad": neither JSON nor commented
NameSc == <<115, 99>>               \* "sc": a script listing
NameSq == <<115, 113>>              \* "sq": a script listing with "//" in a string
NameSo == <<115, 111>>              \* "so": a script listing, its last item without a name
NameEm == <<101, 109>>              \* "em": an entry of no bytes
NameHb == <<104, 98>>               \* "hb": bytes that decrypt to values above 0x7f before the fold
NameNo == <<110, 111>>              \* "no": in no archive
NameP == <<112>>                    \* "p": the payload tried exhaustively

OrigJson == <<120, 46, 106, 115, 111, 110>>         \* "x.json"
OrigTxt == <<121, 46, 116, 120, 116>>               \* "y.txt"
OrigPng == <<122, 46, 112, 110, 103>>               \* "z.png"
OrigInDir == <<100, 47, 121, 46, 116, 120, 116>>    \* "d/y.txt"

TextOk == <<91, 49, 44, 32, 50, 93>>                \* [1, 2]
TextCm == <<47, 47, 32, 99, 10, 91, 49, 93>>        \* // c\n[1]
TextBad == <<91, 49, 44>>                           \* [1,
\* [{"path":"d/s","name":"n","code":"c"}]
TextSc ==
    <<91, 123, 34, 112, 97, 116, 104, 34, 58, 34, 100, 47, 115, 34, 44, 34, 110,
      97, 109, 101, 34, 58, 34, 110, 34, 44, 34, 99, 111, 100, 101, 34, 58, 34,
      99, 34, 125, 93>>
\* [{"path":"s","name":"n","code":"//"}, {"path":"t","name":"m","code":"c"}]
TextSq ==
    <<91, 123, 34, 112, 97, 116, 104, 34, 58, 34, 115, 34, 44, 34, 110, 97, 109,
      101, 34, 58, 34, 110, 34, 44, 34, 99, 111, 100, 101, 34, 58, 34, 47, 47,
      34, 125, 44, 32, 123, 34, 112, 97, 116, 104, 34, 58, 34, 116, 34, 44, 34,
      110, 97, 109, 101, 34, 58, 34, 109, 34, 44, 34, 99, 111, 100, 101, 34, 58,
      34, 99, 34, 125, 93>>
\* [{"path":"s","name":"n","code":"c"},{"path":"t"}]
TextSo ==
    <<91, 123, 34, 112, 97, 116, 104, 34, 58, 34, 115, 34, 44, 34, 110, 97, 109,
      101, 34, 58, 34, 110, 34, 44, 34, 99, 111, 100, 101, 34, 58, 34, 99, 34,
      125, 44, 123, 34, 112, 97, 116, 104, 34, 58, 34, 116, 34, 125, 93>>

\* the raw (encrypted) entries of the stock archive, by asset name
StockRaw ==
    << <<NameOk, Encrypt(1, TextOk)>>,
       <<NameCm, Encrypt(77, TextCm)>>,
       <<NameBad, Encrypt(200, TextBad)>>,
       <<NameSc, Encrypt(0, TextSc)>>,
       <<NameSq, Encrypt(255, TextSq)>>,
       <<NameSo, Encrypt(128, TextSo)>>,
       <<NameEm, <<>> >>,
       <<NameHb, Encrypt(9, <<200, 65, 255>>)>> >>

\* a descriptor of the manifest; wrong names the integrity fields that
\* disagree with the archive entry raw
Descriptor(name, original_name, lby, raw, wrong) ==
    LET off(field) == IF field \in wrong THEN 1 ELSE 0
        decrypted == IF raw = <<>> THEN <<>> ELSE DecryptBytes(raw)
    IN  [name |-> name,
         original_name |-> original_name,
         lby |-> lby,
         size |-> Len(raw) + off("size"),
         hash |-> Md5(raw) + off("hash"),
         original_size |-> Len(decrypted) + off("original size"),
         original_hash |-> Md5(decrypted) + off("original hash")]

IntegrityFields == {"size", "hash", "original size", "original hash"}

StockDescriptor(k, original_name, lby, wrong) ==
    Descriptor(StockRaw[k][1], original_name, lby, StockRaw[k][2], wrong)

\* descriptors that agree with the stock archive, one for each way through
\* the loop body
BaseDescriptors ==
    << StockDescriptor(1, OrigJson, TRUE, {}),       \* re-serialised
      StockDescriptor(2, OrigJson, TRUE, {}),       \* commented, written as is
      StockDescriptor(3, OrigJson, TRUE, {}),       \* json.loads raises
      StockDescriptor(4, ScriptingJson, TRUE, {}),
      StockDescriptor(5, ScriptingJson, TRUE, {}),
      StockDescriptor(6, ScriptingJson, TRUE, {}),
      StockDescriptor(1, OrigTxt, TRUE, {}),        \* written as is
      StockDescriptor(8, OrigTxt, TRUE, {}),
      StockDescriptor(7, OrigTxt, TRUE, {}),        \* decrypt_file raises
      StockDescriptor(1, OrigInDir, TRUE, {}),      \* open raises
      StockDescriptor(1, OrigPng, TRUE, {}),        \* skipped
      StockDescriptor(1, OrigTxt, FALSE, {}),       \* skipped
      Descriptor(NameNo, OrigTxt, TRUE, <<>>, {}),  \* not in the archive
      Descriptor(NameNo, OrigPng, TRUE, <<>>, {}),  \* not in the archive, skipped
      Descriptor(NameNo, OrigTxt, FALSE, <<>>, {}) >>

\* descriptors that disagree with the stock archive, in every possible way:
\* of a present entry and of an empty one, written as .txt and as .json
MismatchChoices ==
    {1, 7} \X {OrigTxt, OrigJson} \X ((SUBSET IntegrityFields) \ {{}})

MismatchDescriptor(c) == StockDescriptor(c[1], c[2], TRUE, c[3])

\* the manifest with the base descriptors of the given numbers, in that order
BaseManifest(ks) == [i \in 1..Len(ks) |-> BaseDescriptors[ks[i]]]

LibEntry == DataEntry(<<108, 105, 98, 47, 120, 46, 115, 111>>, <<1, 2>>)   \* "lib/x.so"

StockAssets == [k \in 1..Len(StockRaw) |-> DataEntry(AssetsPrefix \o StockRaw[k][1], StockRaw[k][2])]

\* a plain apk: lib/, the manifest and the stock assets
StockApk(manifest) == <<LibEntry, LbyEntry(AssetsPrefix \o FilesLby, manifest)>> \o StockAssets

\* a plain apk holding one .json asset with the given payload
PayloadApk(text) ==
    LET raw == Encrypt(90, text)
    IN  << LbyEntry(AssetsPrefix \o FilesLby, <<Descriptor(NameP, OrigJson, TRUE, raw, {})>>),
           DataEntry(AssetsPrefix \o NameP, raw) >>

\* [ ] 1 , space / * "
JsonAlphabet == {91, 93, 49, 44, 32, 47, 42, 34}

\* the archives nested in a container
InnerA == StockApk(<<StockDescriptor(1, OrigTxt, TRUE, {})>>)
InnerB == StockApk(<<StockDescriptor(1, OrigJson, TRUE, {})>>)
InnerNoAssets == <<LibEntry>>

GameApk == <<103, 97, 109, 101, 46, 97, 112, 107>>      \* "game.apk"
ConfigApk == <<99, 46, 97, 112, 107>>                   \* "c.apk"
ConfigSplit == [id |-> <<99, 111, 110, 102, 105, 103>>, file |-> ConfigApk]    \* "config"
BaseSplitItem == [id |-> BaseId, file |-> GameApk]

\* the entries a container is put together from
ContainerEntries ==
    << LibEntry,
       LbyEntry(AssetsPrefix \o FilesLby, <<StockDescriptor(1, OrigTxt, TRUE, {})>>),
       StockAssets[1],
       DataEntry(AssetsDir, <<1>>),                      \* a file named "assets"
       DataEntry(AssetsPrefix \o FilesLby, Encrypt(3, TextOk)),
       ZipEntry(BaseApk, InnerA),
       ZipEntry(BaseApk, InnerNoAssets),
       DataEntry(BaseApk, <<1, 2>>),
       SplitsEntry(ManifestJson, <<ConfigSplit, BaseSplitItem>>),
       SplitsEntry(ManifestJson, <<ConfigSplit>>),
       DataEntry(ManifestJson, <<1, 2>>),
       ZipEntry(GameApk, InnerB),
       ZipEntry(GameApk, InnerNoAssets) >>

\* the container with the entries of the given numbers, in that order
Container(ks) == [i \in 1..Len(ks) |-> ContainerEntries[ks[i]]]

DistinctNames(zip) == \A i, j \in 1..Len(zip) : i # j => zip[i].name # zip[j].name

\* decrypt_file is not being run on its own
CipherIdle ==
    /\ cpc = "off" /\ seed = 0 /\ plain = <<>> /\ enc = <<>>
    /\ dec_buf = <<>> /\ dec_trunc = <<>>

\* main is called with a path and an empty output directory
Init ==
    /\ CipherIdle
    /\ pc = "open"
    /\ \/ \E ks \in SeqsUpTo(1..Len(BaseDescriptors), MaxFiles) :
            apk_path = [suffix |-> ".apk", zip |-> StockApk(BaseManifest(ks))]
       \/ \E c \in MismatchChoices, ks \in SeqsUpTo(1..Len(BaseDescriptors), 1) :
            apk_path = [suffix |-> ".apk",
                        zip |-> StockApk(<<MismatchDescriptor(c)>> \o BaseManifest(ks))]
       \/ \E text \in SeqsUpTo(JsonAlphabet, MaxPayload) :
            apk_path = [suffix |-> ".apk", zip |-> PayloadApk(text)]
       \/ \E s \in {".apk", ".xapk"}, ks \in SeqsUpTo(1..Len(ContainerEntries), MaxEntries) :
            /\ DistinctNames(Container(ks))
            /\ apk_path = [suffix |-> s, zip |-> Container(ks)]
    /\ apk = <<>>
    /\ member = <<>>
    /\ unwraps = 0
    /\ files = <<>>
    /\ idx = 0
    /\ fs = <<>>
    /\ dirs = {<<>>}
    /\ events = <<>>
    /\ error = ""
    /\ scripts = <<>>
    /\ sidx = 0

Next == OpenArchive \/ DecodeManifest \/ ExtractFile \/ OpenScripts \/ DumpScript \/ Finish

Spec == Init /\ [][Next]_vars

\* --------------------------------------------------- claims about main

\* a descriptor the loop processes: lby true, name not ending in .png
Processed(f) == f.lby = TRUE /\ ~EndsWith(f.original_name, PngSuffix)

\* the archive main reads from has the entry assets/<name>
RawPresent(f) == \E k \in 1..Len(apk) : apk[k].name = AssetsPrefix \o f.name

\* the raw entry assets/<name>
RawOf(f) == apk[CHOOSE k \in 1..Len(apk) : apk[k].name = AssetsPrefix \o f.name].data

\* the positions in the log of the events of the given kinds
EventsOf(kinds) == {p \in 1..Len(events) : events[p].ev \in kinds}

\* the descriptors whose output file has been written
Written == {events[p].i : p \in EventsOf({"asset"})}

\* the manifest has been decoded
ManifestDecoded == idx >= 1

\* the first processed descriptor whose raw entry is absent, 0 if none
FirstMissing ==
    LET missing == {i \in 1..Len(files) : Processed(files[i]) /\ ~RawPresent(files[i])}
    IN  IF missing = {} THEN 0
        ELSE CHOOSE i \in missing : \A j \in missing : i <= j

C2_AtMissingEntry ==
    FirstMissing > 0 =>
        /\ idx <= FirstMissing
        /\ Written \subseteq 1..(FirstMissing - 1)
        /\ EventsOf({"open scripts", "script"}) = {}
        /\ pc \notin {"dump", "done"}
        /\ LuaSrc \notin dirs
        /\ idx = FirstMissing =>
              /\ Written = {i \in 1..(FirstMissing - 1) : Processed(files[i])}
              /\ \A i \in Written : files[i].original_name \in DOMAIN fs
              /\ pc = "failed" => error = "KeyError"

C2_FailsThere ==
    (pc = "extract" /\ FirstMissing > 0 /\ idx = FirstMissing) =>
        /\ pc' = "failed" /\ error' = "KeyError"
        /\ fs' = fs /\ events' = events /\ idx' = idx

\* C2: when the loop reaches the first processed descriptor whose raw entry
\* assets/<name> is absent, the run fails there with KeyError: every earlier
\* processed descriptor has its output file written, none is written for that
\* descriptor or a later one, and the script stage never starts.
C2_MissingEntryStopsRun == []C2_AtMissingEntry /\ [][C2_FailsThere]_vars

C2_Witness ==
    /\ pc = "failed" /\ error = "KeyError"
    /\ Len(files) = 2 /\ FirstMissing = 2 /\ idx = 2
    /\ Written = {1}

\* C3, as stated: if every processed descriptor resolves to an entry of the
\* archive, the loop does not abort and reaches the end of the manifest with
\* one output file written per processed descriptor.
C3_AbortsOnlyOnMissingEntry ==
    (ManifestDecoded /\ FirstMissing = 0) =>
        /\ pc = "failed" => idx > Len(files)
        /\ idx > Len(files) => Written = {i \in 1..Len(files) : Processed(files[i])}

\* the loop has aborted at a descriptor whose entry is present
C3_Witness ==
    /\ ManifestDecoded /\ FirstMissing = 0
    /\ pc = "failed" /\ error = "JSONDecodeError"
    /\ idx \in 1..Len(files)
    /\ idx \notin Written

\* the integrity fields of a descriptor that disagree with the archive
Mismatches(f) ==
    LET raw == RawOf(f)
    IN  (IF Len(raw) # f.size THEN {"size"} ELSE {})
        \cup (IF Md5(raw) # f.hash THEN {"hash"} ELSE {})
        \cup (IF raw # <<>> /\ Len(DecryptBytes(raw)) # f.original_size
              THEN {"original size"} ELSE {})
        \cup (IF raw # <<>> /\ Md5(DecryptBytes(raw)) # f.original_hash
              THEN {"original hash"} ELSE {})

\* C4, as stated: the run never fails at a processed descriptor whose raw
\* entry is present and whose size or checksum fields disagree with the
\* archive; the payload is written and the loop goes on.
C4_MismatchNeverFatal ==
    (/\ idx \in 1..Len(files)
     /\ Processed(files[idx])
     /\ RawPresent(files[idx])
     /\ Mismatches(files[idx]) # {}) => pc # "failed"

\* the run has failed at a mismatching descriptor after warning about it
C4_Witness ==
    /\ pc = "failed" /\ error = "IndexError"
    /\ idx \in 1..Len(files)
    /\ RawPresent(files[idx]) /\ Mismatches(files[idx]) # {}
    /\ \E p \in EventsOf({"warn"}) : events[p].i = idx
    /\ files[idx].original_name \notin DOMAIN fs

\* the container has a manifest.json whose split_apks has an item with id base
HasBaseSplit(zip) ==
    \E k \in 1..Len(zip) :
        /\ zip[k].name = ManifestJson /\ zip[k].kind = "splits"
        /\ \E j \in 1..Len(zip[k].splits) : zip[k].splits[j].id = BaseId

\* C5, as stated: whenever the container has an entry base.apk,
\* load_apk_from_xapk returns that entry's content, whatever the order of
\* the entries; the base split of manifest.json is returned only when there
\* is no base.apk.
C5_BaseApkPreferred ==
    (pc # "open" /\ unwraps = 1 /\ member # <<>>) =>
        IF \E k \in 1..Len(apk_path.zip) : apk_path.zip[k].name = BaseApk
        THEN member = BaseApk
        ELSE HasBaseSplit(apk_path.zip) /\ member # BaseApk

\* load_apk_from_xapk has returned the base split of a container that has base.apk
C5_Witness ==
    /\ unwraps = 1 /\ member = GameApk
    /\ \E k \in 1..Len(apk_path.zip) : apk_path.zip[k].name = BaseApk
    /\ HasBaseSplit(apk_path.zip)

\* the archive has a top-level directory assets
HasAssetsDir(zip) ==
    \E k \in 1..Len(zip) :
        Len(zip[k].name) >= 7 /\ SubSeq(zip[k].name, 1, 7) = <<97, 115, 115, 101, 116, 115, 47>>

\* nothing of the manifest or of the output exists
NothingDone == files = <<>> /\ idx = 0 /\ fs = <<>> /\ events = <<>>

\* C6, as stated: without a multi-split extension, a zip with a top-level
\* directory assets is selected with no unwrap attempt; otherwise the unwrap
\* is attempted, and whenever it does not produce an archive with assets the
\* run fails with "Invalid apk file." before the manifest is decoded or any
\* file is written.
C6_FallbackFailsInvalidApk ==
    (pc # "open" /\ apk_path.suffix \notin XapkSuffixes) =>
        IF HasAssetsDir(apk_path.zip)
        THEN unwraps = 0 /\ apk = apk_path.zip
        ELSE /\ unwraps = 1
             /\ (member = <<>> \/ ~HasAssetsDir(apk)) =>
                   pc = "failed" /\ error = "InvalidApk" /\ NothingDone

\* the fallback has found no base archive and the run has failed otherwise
C6_Witness ==
    /\ apk_path.suffix \notin XapkSuffixes
    /\ ~HasAssetsDir(apk_path.zip)
    /\ unwraps = 1 /\ member = <<>>
    /\ pc = "failed" /\ error = "NoBaseApk" /\ NothingDone

\* C7: the script stage (scripting.json opened, lua_src made, a script
\* written) starts only after every descriptor of the manifest has been
\* skipped or processed, its warnings emitted and its output written; no
\* asset is written after a script, and assets are written in manifest order.
C7_StagesInOrder ==
    LET loop_events == EventsOf({"skip", "warn", "asset"})
        script_events == EventsOf({"open scripts", "script"})
        script_stage == \/ script_events # {}
                        \/ pc \in {"dump", "done"}
                        \/ LuaSrc \in dirs
    IN  /\ \A p \in script_events, q \in loop_events : q < p
        /\ script_stage =>
              \A i \in 1..Len(files) :
                  IF Processed(files[i])
                  THEN /\ i \in Written
                       /\ files[i].original_name \in DOMAIN fs
                  ELSE \E q \in EventsOf({"skip"}) : events[q].i = i
        /\ \A p, q \in loop_events :
              p < q => /\ events[p].i <= events[q].i
                       /\ events[p].ev \in {"asset", "skip"} => events[p].i < events[q].i

C7_Witness ==
    /\ pc = "done" /\ Len(files) = 2
    /\ Written = {1, 2}
    /\ EventsOf({"warn"}) # {}
    /\ EventsOf({"script"}) # {}

\* the text has a comment opener, // or /*
ContainsCommentOpener(text) ==
    \E i \in 1..(Len(text) - 1) : text[i] = 47 /\ text[i + 1] \in {47, 42}

\* an output file has just been written
JustWritten ==
    /\ pc = "extract" /\ events # <<>>
    /\ events[Len(events)].ev = "asset"
    /\ idx = events[Len(events)].i + 1

\* C8: the bytes written for a .json name are the decrypted payload when it
\* has a comment opener; without one the payload is valid JSON and the
\* bytes are its re-serialisation indented by 2, which parses to the value
\* the payload parses to, and the only failure of json.loads is on a payload
\* with no opener that is not JSON.  For any other name the bytes written are
\* the decrypted payload.
C8_JsonNormalisation ==
    /\ JustWritten =>
          LET f == files[events[Len(events)].i]
              payload == DecryptBytes(RawOf(f))
              written == fs[f.original_name]
          IN  IF ~EndsWith(f.original_name, JsonSuffix) THEN written = payload
              ELSE IF ContainsCommentOpener(payload) THEN written = payload
              ELSE /\ JsonValid(payload)
                   /\ written = JsonDumps(JsonValue(payload), 0)
                   /\ JsonValid(written)
                   /\ JsonValue(written) = JsonValue(payload)
                   /\ (JsonValue(payload)[1] \in {"arr", "obj"} /\ JsonValue(payload)[2] # <<>>)
                          => SubSeq(written, 2, 4) = <<10, 32, 32>>
    /\ (pc = "failed" /\ error = "JSONDecodeError" /\ idx \in 1..Len(files)) =>
          LET payload == DecryptBytes(RawOf(files[idx]))
          IN  /\ EndsWith(files[idx].original_name, JsonSuffix)
              /\ ~ContainsCommentOpener(payload)
              /\ ~JsonValid(payload)

C8_Witness ==
    /\ JustWritten
    /\ LET f == files[events[Len(events)].i]
       IN  /\ EndsWith(f.original_name, JsonSuffix)
           /\ ~ContainsCommentOpener(DecryptBytes(RawOf(f)))
           /\ fs[f.original_name] # DecryptBytes(RawOf(f))
           /\ JsonValue(DecryptBytes(RawOf(f)))[1] = "arr"
           /\ Len(JsonValue(DecryptBytes(RawOf(f)))[2]) = 2

====
